---- MODULE Spec2Model ----
(***************************************************************************)
(* The aggregation pass of index() in app.py: the match table is read,     *)
(* then each chart section derives its sub-table from it, and the page is  *)
(* rendered.  One action per section of the handler, in source order.      *)
(* Charts 1 and 9 read only Date and Attendance and write only their own   *)
(* figures; they are not part of the state modelled here.                  *)
(*                                                                         *)
(* Numbers: a mean is kept as the exact fraction [num, den]; Win Rate is   *)
(* kept in tenths of a percent (an integer), as round(..., 1) leaves it.   *)
(***************************************************************************)
EXTENDS Integers, Sequences, FiniteSets, TLC

VARIABLES csv, df, pc, home_wins, away_wins, draws, goal_range, goal_dist,
          day_stats, top_venues, score_matrix, pivot_scores, yearly_stats,
          team_stats, team_df, page

vars == <<csv, df, pc, home_wins, away_wins, draws, goal_range, goal_dist,
          day_stats, top_venues, score_matrix, pivot_scores, yearly_stats,
          team_stats, team_df, page>>

(***************************************************************************)
(* Bounds of the explored tables.                                          *)
(***************************************************************************)
MaxRows == 2

MaxGoalRows == 3

MaxDayRows == 3

MaxChain == 11

(***************************************************************************)
(* Values of the cells.                                                    *)
(***************************************************************************)
\* a missing cell (pandas NaN / None)
NaN == "NaN"

\* elementwise == of two columns: a missing cell equals nothing
Eq(a, b) == a # NaN /\ b # NaN /\ a = b

\* the strings that get sorted, in the order of python's str comparison
Collation == <<"A", "B", "C", "Fri", "Goa", "Kochi", "Mon", "Sat", "Sun",
               "T01", "T02", "T03", "T04", "T05", "T06", "T07", "T08", "T09",
               "T10", "T11", "T12", "T13", "T14", "Thu", "Tue", "Wed">>

Ord(s) == CHOOSE i \in 1..Len(Collation) : Collation[i] = s

Min(a, b) == IF a <= b THEN a ELSE b

Range(s) == {s[i] : i \in 1..Len(s)}

RECURSIVE SumOver(_, _)
SumOver(I, f) ==
    IF I = {} THEN 0
    ELSE LET i == CHOOSE x \in I : TRUE IN f[i] + SumOver(I \ {i}, f)

\* the elements of S as a sequence in ascending order of key (key is
\* one-to-one on S)
SortedSet(S, key) ==
    [k \in 1..Cardinality(S) |->
        CHOOSE x \in S : Cardinality({y \in S : key[y] < key[x]}) = k - 1]

\* sorted(...) of a set of strings, and of a set of numbers
SortedStrings(S) == SortedSet(S, [x \in S |-> Ord(x)])

SortedInts(S) == SortedSet(S, [x \in S |-> x])

\* df[name]: a column of the frame
Col(frame, name) == [i \in 1..Len(frame) |-> frame[i][name]]

\* a == b for two columns, and for a column and a value: a boolean mask
EqCols(a, b) == [i \in 1..Len(a) |-> Eq(a[i], b[i])]

EqValue(a, v) == [i \in 1..Len(a) |-> Eq(a[i], v)]

\* the same for a column of numbers (the numeric columns have no missing cell)
EqNumber(a, v) == [i \in 1..Len(a) |-> a[i] = v]

\* df[mask]: the rows selected by a mask, as their positions
Where(mask) == {i \in 1..Len(mask) : mask[i]}

\* mean of total_goals over the rows I (I non-empty), as a fraction
MeanGoals(frame, I) ==
    [num |-> SumOver(I, Col(frame, "total_goals")), den |-> Cardinality(I)]

\* a > b for two fractions with positive denominators
FracGreater(a, b) == a.num * b.den > b.num * a.den

(***************************************************************************)
(* sort_values(col): default kind 'quicksort' is not stable, so the order  *)
(* of rows with equal keys is any order.  The result is one of the         *)
(* arrangements of s with non-decreasing key (key[i] is the key of s[i]).  *)
(***************************************************************************)
RECURSIVE Arrange(_, _, _, _, _)
Arrange(k, n, used, lo, hi) ==
    IF k > n THEN {<<>>}
    ELSE UNION { {<<i>> \o rest : rest \in Arrange(k + 1, n, used \cup {i}, lo, hi)} :
                 i \in {j \in (1..n) \ used : lo[j] < k /\ k <= hi[j]} }

SortValues(s, key) ==
    LET n  == Len(s)
        lo == [i \in 1..n |-> Cardinality({j \in 1..n : key[j] < key[i]})]
        hi == [i \in 1..n |-> Cardinality({j \in 1..n : key[j] <= key[i]})]
    IN  {[k \in 1..n |-> s[p[k]]] : p \in Arrange(1, n, {}, lo, hi)}

\* .head(n)
HeadN(s, n) == SubSeq(s, 1, Min(n, Len(s)))

\* s in descending order of the fractions val (val[i] belongs to s[i]),
\* equal values in their original order
Descending(s, val) ==
    LET m   == Len(s)
        pos == [i \in 1..m |->
                 1 + Cardinality({j \in 1..m :
                        \/ FracGreater(val[j], val[i])
                        \/ (~FracGreater(val[i], val[j]) /\ j < i)})]
    IN  [k \in 1..m |-> s[CHOOSE i \in 1..m : pos[i] = k]]

\* nlargest(n, col), keep='first'
NLargest(n, s, val) == HeadN(Descending(s, val), n)

(***************************************************************************)
(* CHART 2: home vs away wins                                              *)
(***************************************************************************)
HomeWins(frame) ==
    Cardinality(Where(EqCols(Col(frame, "winner"), Col(frame, "Home"))))

AwayWins(frame) ==
    Cardinality(Where(EqCols(Col(frame, "winner"), Col(frame, "Away"))))

Draws(frame) == Len(frame) - HomeWins(frame) - AwayWins(frame)

(***************************************************************************)
(* CHART 3: goal distribution                                              *)
(***************************************************************************)
goal_bins == <<0, 1, 2, 3, 4, 10>>

goal_labels == <<"0-1", "2", "3", "4", "5+">>

\* pd.cut with right=False: intervals [bins[i], bins[i+1])
CutLeftClosed(x, bins, labels) ==
    IF \E i \in 1..Len(labels) : bins[i] <= x /\ x < bins[i + 1]
    THEN labels[CHOOSE i \in 1..Len(labels) : bins[i] <= x /\ x < bins[i + 1]]
    ELSE NaN

\* pd.cut(x, bins, labels): intervals (bins[i], bins[i+1]], else missing
Cut(x, bins, labels) ==
    IF \E i \in 1..Len(labels) : bins[i] < x /\ x <= bins[i + 1]
    THEN labels[CHOOSE i \in 1..Len(labels) : bins[i] < x /\ x <= bins[i + 1]]
    ELSE NaN

\* value_counts() of a plain column: one row per value that occurs
ValueCountsObserved(col, cats) ==
    LET cnt(c) == Cardinality({i \in 1..Len(col) : col[i] = c})
        seen   == SelectSeq(cats, LAMBDA c : cnt(c) > 0)
        rows   == [k \in 1..Len(seen) |-> [index |-> seen[k], count |-> cnt(seen[k])]]
    IN  Descending(rows, [k \in 1..Len(rows) |-> [num |-> rows[k].count, den |-> 1]])

\* value_counts() of a categorical column: one row per category (also the
\* unobserved ones), missing cells dropped, most frequent first (the order
\* among equal counts does not outlive the sort_index that follows)
ValueCounts(col, cats) ==
    LET cnt(c) == Cardinality({i \in 1..Len(col) : col[i] = c})
        rows   == [k \in 1..Len(cats) |-> [index |-> cats[k], count |-> cnt(cats[k])]]
    IN  Descending(rows, [k \in 1..Len(rows) |-> [num |-> rows[k].count, den |-> 1]])

\* position of a category in the declared categories; missing sorts last
Code(c, cats) ==
    IF \E i \in 1..Len(cats) : cats[i] = c
    THEN CHOOSE i \in 1..Len(cats) : cats[i] = c
    ELSE Len(cats) + 1

\* sort_index() of a series indexed by a categorical: by category code
SortIndex(series, cats) ==
    SortedSet(Range(series), [r \in Range(series) |-> Code(r.index, cats)])

\* reset_index() and the renaming of the two columns
GoalDist(col) ==
    LET s == SortIndex(ValueCounts(col, goal_labels), goal_labels)
    IN  [k \in 1..Len(s) |-> [Goals |-> s[k].index, Frequency |-> s[k].count]]

(***************************************************************************)
(* CHART 4: performance by day of week                                     *)
(***************************************************************************)
day_order == <<"Mon", "Tue", "Wed", "Thu", "Fri", "Sat", "Sun">>

\* groupby('Day').agg(...).reset_index(): one row per key, keys ascending
DayGroups(frame) ==
    LET keys == SortedStrings(Range(Col(frame, "Day")) \ {NaN})
    IN  [k \in 1..Len(keys) |->
          LET I == Where(EqValue(Col(frame, "Day"), keys[k]))
          IN  [Day |-> keys[k], total_goals |-> MeanGoals(frame, I),
               Date |-> Cardinality(I)]]

\* pd.Categorical(values, categories): a value outside the categories is missing
Categorical(v, cats) == IF v \in Range(cats) THEN v ELSE NaN

\* the key of a sort on the plain strings
DayKeyAlphabetical(r) == IF r.Day = NaN THEN Len(Collation) + 1 ELSE Ord(r.Day)

\* the key sort_values('Day') orders by: the code of the category
DayKey(r) == Code(r.Day, day_order)

DayStats(frame) ==
    LET g == DayGroups(frame)
        c == [k \in 1..Len(g) |-> [g[k] EXCEPT !.Day = Categorical(@, day_order)]]
    IN  SortValues(c, [k \in 1..Len(c) |-> DayKey(c[k])])

(***************************************************************************)
(* CHART 5: top 10 venues by average goals                                 *)
(***************************************************************************)
VenueStats(frame) ==
    LET keys == SortedStrings(Range(Col(frame, "Venue")) \ {NaN})
    IN  [k \in 1..Len(keys) |->
          LET I == Where(EqValue(Col(frame, "Venue"), keys[k]))
          IN  [Venue |-> keys[k], total_goals |-> MeanGoals(frame, I),
               Matches |-> Cardinality(I)]]

TopVenues(frame) ==
    LET v == VenueStats(frame)
    IN  NLargest(10, v, [k \in 1..Len(v) |-> v[k].total_goals])

(***************************************************************************)
(* CHART 6: scoring patterns                                               *)
(***************************************************************************)
\* groupby([home_team_score, away_team_score]).size().reset_index(name='count')
ScoreMatrix(frame) ==
    LET pairs == {<<frame[i].home_team_score, frame[i].away_team_score>> :
                    i \in 1..Len(frame)}
        width == 1 + SumOver(1..Len(frame), Col(frame, "away_team_score"))
        keys  == SortedSet(pairs, [p \in pairs |-> p[1] * width + p[2]])
    IN  [k \in 1..Len(keys) |->
          [home_team_score |-> keys[k][1], away_team_score |-> keys[k][2],
           count |-> Cardinality(
                        Where(EqNumber(Col(frame, "home_team_score"), keys[k][1]))
                          \cap Where(EqNumber(Col(frame, "away_team_score"), keys[k][2])))]]

\* pivot(index=away, columns=home, values=count).fillna(0)
PivotScores(m) ==
    LET aw == {m[k].away_team_score : k \in 1..Len(m)}
        ho == {m[k].home_team_score : k \in 1..Len(m)}
        cell(a, h) ==
            IF \E k \in 1..Len(m) : m[k].away_team_score = a /\ m[k].home_team_score = h
            THEN m[CHOOSE k \in 1..Len(m) :
                     m[k].away_team_score = a /\ m[k].home_team_score = h].count
            ELSE 0
    IN  [index |-> SortedInts(aw), columns |-> SortedInts(ho),
         values |-> [p \in aw \X ho |-> cell(p[1], p[2])]]

(***************************************************************************)
(* CHART 7: goals by year                                                  *)
(***************************************************************************)
YearlyStats(frame) ==
    LET keys == SortedInts(Range(Col(frame, "Year")))
    IN  [k \in 1..Len(keys) |->
          LET I == Where(EqNumber(Col(frame, "Year"), keys[k]))
          IN  [Year |-> keys[k], total_goals |-> MeanGoals(frame, I),
               Matches |-> Cardinality(I)]]

(***************************************************************************)
(* CHART 8: team performance                                               *)
(***************************************************************************)
\* sorted(set(Home.unique()) | set(Away.unique()))
Teams(frame) ==
    SortedStrings(Range(Col(frame, "Home")) \cup Range(Col(frame, "Away")))

\* len(home_matches) alone
TotalMatchesHomeOnly(frame, team) ==
    Cardinality(Where(EqValue(Col(frame, "Home"), team)))

\* len(home_matches) + len(away_matches)
TotalMatches(frame, team) ==
    Cardinality(Where(EqValue(Col(frame, "Home"), team)))
      + Cardinality(Where(EqValue(Col(frame, "Away"), team)))

\* len(df[df['winner'] == team])
Wins(frame, team) == Cardinality(Where(EqValue(Col(frame, "winner"), team)))

\* home_goals + away_goals
Goals(frame, team) ==
    SumOver(Where(EqValue(Col(frame, "Home"), team)), Col(frame, "home_team_score"))
      + SumOver(Where(EqValue(Col(frame, "Away"), team)), Col(frame, "away_team_score"))

\* round((wins / total_matches) * 100, 1), in tenths of a percent; a value
\* exactly half way goes to the even tenth
WinRate(wins, total_matches) ==
    IF total_matches > 0
    THEN LET q == (1000 * wins) \div total_matches
             r == (1000 * wins) % total_matches
         IN  IF 2 * r < total_matches THEN q
             ELSE IF 2 * r > total_matches THEN q + 1
             ELSE IF q % 2 = 0 THEN q ELSE q + 1
    ELSE 0

TeamStats(frame) ==
    LET teams == Teams(frame)
    IN  [k \in 1..Len(teams) |->
          [Team    |-> teams[k],
           Matches |-> TotalMatches(frame, teams[k]),
           Wins    |-> Wins(frame, teams[k]),
           Goals   |-> Goals(frame, teams[k]),
           WinRate |-> WinRate(Wins(frame, teams[k]), TotalMatches(frame, teams[k]))]]

\* the key of sort_values('Win Rate') with the default ascending=True
WinRateKeyAscending(r) == r.WinRate

\* sort_values('Win Rate', ascending=False): the key, as an ascending one

WinRateKey(r) == 0 - r.WinRate

(***************************************************************************)
(* The figures written into the page template.                             *)
(***************************************************************************)
TotalMatchesShown == 1056

AvgGoalsShownTenths == 28

AvgAttendanceShown == 10353

YearsShown == 9

(***************************************************************************)
(* The handler, section by section.                                        *)
(***************************************************************************)
LoadData ==
    /\ pc = "load"
    /\ df' = [i \in 1..Len(csv) |->
                [Day |-> csv[i].Day, Home |-> csv[i].Home, Away |-> csv[i].Away,
                 winner |-> csv[i].winner, total_goals |-> csv[i].total_goals,
                 Venue |-> csv[i].Venue, Year |-> csv[i].Year,
                 home_team_score |-> csv[i].home_team_score,
                 away_team_score |-> csv[i].away_team_score,
                 day_of_week |-> csv[i].Day]]
    /\ pc' = "chart2"
    /\ UNCHANGED <<csv, home_wins, away_wins, draws, goal_range, goal_dist,
                   day_stats, top_venues, score_matrix, pivot_scores,
                   yearly_stats, team_stats, team_df, page>>

Chart2 ==
    /\ pc = "chart2"
    /\ home_wins' = HomeWins(df)
    /\ away_wins' = AwayWins(df)
    /\ draws' = Draws(df)
    /\ pc' = "chart3"
    /\ UNCHANGED <<csv, df, goal_range, goal_dist, day_stats, top_venues,
                   score_matrix, pivot_scores, yearly_stats, team_stats,
                   team_df, page>>

Chart3 ==
    /\ pc = "chart3"
    /\ goal_range' = [i \in 1..Len(df) |-> Cut(df[i].total_goals, goal_bins, goal_labels)]
    /\ goal_dist' = GoalDist(goal_range')
    /\ pc' = "chart4"
    /\ UNCHANGED <<csv, df, home_wins, away_wins, draws, day_stats, top_venues,
                   score_matrix, pivot_scores, yearly_stats, team_stats,
                   team_df, page>>

Chart4 ==
    /\ pc = "chart4"
    /\ \E sorted \in DayStats(df) : day_stats' = sorted
    /\ pc' = "chart5"
    /\ UNCHANGED <<csv, df, home_wins, away_wins, draws, goal_range, goal_dist,
                   top_venues, score_matrix, pivot_scores, yearly_stats,
                   team_stats, team_df, page>>

Chart5 ==
    /\ pc = "chart5"
    /\ top_venues' = TopVenues(df)
    /\ pc' = "chart6"
    /\ UNCHANGED <<csv, df, home_wins, away_wins, draws, goal_range, goal_dist,
                   day_stats, score_matrix, pivot_scores, yearly_stats,
                   team_stats, team_df, page>>

Chart6 ==
    /\ pc = "chart6"
    /\ score_matrix' = ScoreMatrix(df)
    /\ pivot_scores' = PivotScores(score_matrix')
    /\ pc' = "chart7"
    /\ UNCHANGED <<csv, df, home_wins, away_wins, draws, goal_range, goal_dist,
                   day_stats, top_venues, yearly_stats, team_stats, team_df, page>>

Chart7 ==
    /\ pc = "chart7"
    /\ yearly_stats' = YearlyStats(df)
    /\ pc' = "chart8"
    /\ UNCHANGED <<csv, df, home_wins, away_wins, draws, goal_range, goal_dist,
                   day_stats, top_venues, score_matrix, pivot_scores,
                   team_stats, team_df, page>>

\* pd.DataFrame([]) has no 'Win Rate' column: sort_values raises KeyError
Chart8Raise ==
    /\ pc = "chart8"
    /\ TeamStats(df) = <<>>
    /\ team_stats' = <<>>
    /\ pc' = "raised"
    /\ UNCHANGED <<csv, df, home_wins, away_wins, draws, goal_range, goal_dist,
                   day_stats, top_venues, score_matrix, pivot_scores,
                   yearly_stats, team_df, page>>

Chart8 ==
    /\ pc = "chart8"
    /\ TeamStats(df) # <<>>
    /\ team_stats' = TeamStats(df)
    /\ \E sorted \in SortValues(team_stats',
                                [k \in 1..Len(team_stats') |-> WinRateKey(team_stats'[k])]) :
          team_df' = HeadN(sorted, 10)
    /\ pc' = "render"
    /\ UNCHANGED <<csv, df, home_wins, away_wins, draws, goal_range, goal_dist,
                   day_stats, top_venues, score_matrix, pivot_scores,
                   yearly_stats, page>>

Render ==
    /\ pc = "render"
    /\ page' = [total_matches |-> TotalMatchesShown,
                avg_goals_tenths |-> AvgGoalsShownTenths,
                avg_attendance |-> AvgAttendanceShown,
                years |-> YearsShown]
    /\ pc' = "done"
    /\ UNCHANGED <<csv, df, home_wins, away_wins, draws, goal_range, goal_dist,
                   day_stats, top_venues, score_matrix, pivot_scores,
                   yearly_stats, team_stats, team_df>>

Next ==
    \/ LoadData
    \/ Chart2
    \/ Chart3
    \/ Chart4
    \/ Chart5
    \/ Chart6
    \/ Chart7
    \/ Chart8Raise
    \/ Chart8
    \/ Render

(***************************************************************************)
(* The tables explored.                                                    *)
(***************************************************************************)
Tables(rows, n) == UNION {[1..k -> rows] : k \in 0..n}

BaseRow == [Day |-> "Sat", Home |-> "A", Away |-> "B", winner |-> "A",
            total_goals |-> 2, Venue |-> "Goa", Year |-> 2014,
            home_team_score |-> 2, away_team_score |-> 0]

\* rows of every attribution case: the winner is the home side, the away
\* side, a third team, the literal Draw, or missing; Home may equal Away
WinnerRows ==
    {[BaseRow EXCEPT !.Home = h, !.Away = a, !.winner = w] :
        h \in {"A", "B", "C"}, a \in {"A", "B", "C"},
        w \in {"A", "B", "C", "Draw", NaN}}

GoalRows == {[BaseRow EXCEPT !.total_goals = g] : g \in {0, 1, 2, 3, 4, 5, 10, 11}}

DayRows == {[BaseRow EXCEPT !.Day = d] : d \in Range(day_order)}

InitWith(tables) ==
    /\ csv \in tables
    /\ df = <<>>
    /\ pc = "load"
    /\ home_wins = 0
    /\ away_wins = 0
    /\ draws = 0
    /\ goal_range = <<>>
    /\ goal_dist = <<>>
    /\ day_stats = <<>>
    /\ top_venues = <<>>
    /\ score_matrix = <<>>
    /\ pivot_scores = [index |-> <<>>, columns |-> <<>>, values |-> <<>>]
    /\ yearly_stats = <<>>
    /\ team_stats = <<>>
    /\ team_df = <<>>
    /\ page = [total_matches |-> 0, avg_goals_tenths |-> 0,
               avg_attendance |-> 0, years |-> 0]

\* three rows: a home win, a literal Draw, a missing winner
ScenarioTable ==
    <<[BaseRow EXCEPT !.Home = "A", !.Away = "B", !.winner = "A"],
      [BaseRow EXCEPT !.Home = "A", !.Away = "B", !.winner = "Draw"],
      [BaseRow EXCEPT !.Home = "B", !.Away = "A", !.winner = NaN]>>

Init == InitWith(Tables(WinnerRows, MaxRows) \cup {ScenarioTable})

Spec == Init /\ [][Next]_vars

\* the same without the rows in which a side meets itself
InitSides ==
    InitWith(Tables({r \in WinnerRows : r.Home # r.Away}, MaxRows) \cup {ScenarioTable})

SpecSides == InitSides /\ [][Next]_vars

InitGoals == InitWith(Tables(GoalRows, MaxGoalRows))

SpecGoals == InitGoals /\ [][Next]_vars

InitDay == InitWith(Tables(DayRows, MaxDayRows))

SpecDay == InitDay /\ [][Next]_vars

\* a fixture list that brings in one new side per row: row i is side i at
\* home to side i + 1, except that every fourth row has the first side at
\* home; the result of row i follows a repeating pattern (home win, home
\* win, away win) that starts at the given shift
ChainTeams == <<"T01", "T02", "T03", "T04", "T05", "T06", "T07", "T08", "T09",
                "T10", "T11", "T12", "T13", "T14">>

ChainRow(i, shift) ==
    LET homeWon == (i + shift) % 3 # 0
        home    == IF i % 4 = 0 THEN ChainTeams[1] ELSE ChainTeams[i]
    IN  [Day |-> day_order[1 + (i % 7)],
         Home |-> home, Away |-> ChainTeams[i + 1],
         winner |-> IF homeWon THEN home ELSE ChainTeams[i + 1],
         total_goals |-> 1 + (i % 3),
         Venue |-> IF i % 2 = 0 THEN "Goa" ELSE "Kochi",
         Year |-> 2014 + (i % 2),
         home_team_score |-> IF homeWon THEN 1 + (i % 3) ELSE 0,
         away_team_score |-> IF homeWon THEN 0 ELSE 1 + (i % 3)]

ChainTables ==
    {[i \in 1..n |-> ChainRow(i, shift)] : n \in 0..MaxChain, shift \in 0..2}

InitBoard == InitWith(ChainTables)

SpecBoard == InitBoard /\ [][Next]_vars

(***************************************************************************)
(* Properties.                                                             *)
(***************************************************************************)
After2 == pc \notin {"load", "chart2"}

After3 == After2 /\ pc # "chart3"

After4 == After3 /\ pc # "chart4"

After8 == pc \in {"render", "done"}

\* C1: once the winner distribution is computed, homeWins + awayWins + draws
\* equals the number of rows and none of the three counts is negative.
C1_CountsSumToRowsAndNonNegative ==
    After2 =>
        /\ home_wins + away_wins + draws = Len(df)
        /\ home_wins >= 0
        /\ away_wins >= 0
        /\ draws >= 0

\* C2: every row contributes to exactly one count; a row whose winner equals
\* both its Home and its Away is a home win and not an away win.
C2_EachRowCountedOnce ==
    After2 =>
        /\ home_wins = Cardinality({n \in 1..Len(df) : Eq(df[n].winner, df[n].Home)})
        /\ away_wins = Cardinality({n \in 1..Len(df) : ~Eq(df[n].winner, df[n].Home) /\ Eq(df[n].winner, df[n].Away)})
        /\ draws = Cardinality({n \in 1..Len(df) : ~Eq(df[n].winner, df[n].Home) /\ ~Eq(df[n].winner, df[n].Away)})

Lower(w) == IF w \in {"Draw", "DRAW", "draw"} THEN "draw" ELSE w

IsDrawCell(w) == w = NaN \/ Lower(w) = "draw"

\* C3: draws is exactly the number of rows whose winner is missing or is
\* "draw" in any case; such a row is never a home or away win; on the
\* three-row scenario the counts are 1, 0, 2.
C3_DrawsAreTheDrawRows ==
    After2 =>
        /\ draws = Cardinality({n \in 1..Len(df) : IsDrawCell(df[n].winner)})
        /\ home_wins + away_wins = Cardinality({n \in 1..Len(df) : ~IsDrawCell(df[n].winner)})
        /\ csv = ScenarioTable => home_wins = 1 /\ away_wins = 0 /\ draws = 2

\* position of a team's first appearance in the table, row by row, Home
\* before Away
FirstSeen(frame, team) ==
    CHOOSE p \in 1..(2 * Len(frame)) :
        /\ team = (IF p % 2 = 1 THEN frame[(p + 1) \div 2].Home ELSE frame[p \div 2].Away)
        /\ \A q \in 1..(p - 1) :
              team # (IF q % 2 = 1 THEN frame[(q + 1) \div 2].Home ELSE frame[q \div 2].Away)

\* C4 as stated: the leaderboard is in descending order of win count, teams
\* with equal counts in order of first appearance, cut to the first ten.
C4_OrderedByWinCount ==
    After8 =>
        /\ Len(team_df) = Min(10, Len(team_stats))
        /\ \A i, j \in 1..Len(team_df) : i < j =>
              \/ team_df[i].Wins > team_df[j].Wins
              \/ /\ team_df[i].Wins = team_df[j].Wins
                 /\ FirstSeen(df, team_df[i].Team) < FirstSeen(df, team_df[j].Team)

\* C4 amended: the leaderboard holds the first ten teams in non-increasing
\* order of Win Rate: its rows are rows of the per-team statistics, no team
\* twice, and no team left out has a higher Win Rate than a team listed.
C4_OrderedByWinRate ==
    After8 =>
        /\ Len(team_df) = Min(10, Len(team_stats))
        /\ \A i, j \in 1..Len(team_df) : i < j =>
              /\ team_df[i].WinRate >= team_df[j].WinRate
              /\ team_df[i].Team # team_df[j].Team
        /\ \A i \in 1..Len(team_df) : team_df[i] \in Range(team_stats)
        /\ \A r \in Range(team_stats) \ Range(team_df) :
              \A i \in 1..Len(team_df) : team_df[i].WinRate >= r.WinRate

\* more than ten teams, the board cut to ten, and a team listed above one
\* that has more wins but a lower Win Rate
C4_Witness ==
    /\ pc = "done"
    /\ Len(team_stats) > 10
    /\ Len(team_df) = 10
    /\ \E i, j \in 1..Len(team_df) :
          /\ i < j
          /\ team_df[i].Wins < team_df[j].Wins
          /\ team_df[i].WinRate > team_df[j].WinRate

\* C5: on a table without rows the pass does not raise and every aggregate
\* is neutral.
C5_EmptyTableIsNeutral ==
    csv = <<>> =>
        /\ pc # "raised"
        /\ home_wins = 0 /\ away_wins = 0 /\ draws = 0
        /\ After3 => /\ Len(goal_dist) = Len(goal_labels)
                     /\ \A k \in 1..Len(goal_dist) : goal_dist[k].Frequency = 0
        /\ day_stats = <<>>
        /\ top_venues = <<>>
        /\ score_matrix = <<>>
        /\ yearly_stats = <<>>
        /\ team_df = <<>>

\* C6: the total-matches figure of the page is the number of rows of the
\* loaded table.
C6_TotalMatchesIsRowCount ==
    pc = "done" => page.total_matches = Len(df)

\* C7: the goal distribution has one entry per declared label, in declared
\* order, and a label no row falls into has frequency 0.
C7_EveryLabelInDeclaredOrder ==
    After3 =>
        /\ Len(goal_dist) = Len(goal_labels)
        /\ \A k \in 1..Len(goal_dist) :
              /\ goal_dist[k].Goals = goal_labels[k]
              /\ (\A i \in 1..Len(goal_range) : goal_range[i] # goal_labels[k])
                    => goal_dist[k].Frequency = 0

\* a table with rows, one label without any row and one label with rows
C7_Witness ==
    /\ After3
    /\ Len(df) > 0
    /\ \E k \in 1..Len(goal_dist) : goal_dist[k].Frequency = 0
    /\ \E k \in 1..Len(goal_dist) : goal_dist[k].Frequency > 0

FrequencyOf(label) ==
    SumOver({k \in 1..Len(goal_dist) : goal_dist[k].Goals = label},
            [k \in 1..Len(goal_dist) |-> goal_dist[k].Frequency])

\* C8: the bins are (0,1], (1,2], (2,3], (3,4], (4,10]: "0-1" counts the rows
\* with 1 goal, "2" with 2, "3" with 3, "4" with 4, "5+" with 5 to 10; rows
\* with 0 or more than 10 goals are under no label, so the frequencies sum
\* to the number of rows with 0 < total_goals <= 10.
C8_RightClosedBins ==
    After3 =>
        /\ FrequencyOf("0-1") = Cardinality({n \in 1..Len(df) : df[n].total_goals = 1})
        /\ FrequencyOf("2") = Cardinality({n \in 1..Len(df) : df[n].total_goals = 2})
        /\ FrequencyOf("3") = Cardinality({n \in 1..Len(df) : df[n].total_goals = 3})
        /\ FrequencyOf("4") = Cardinality({n \in 1..Len(df) : df[n].total_goals = 4})
        /\ FrequencyOf("5+") = Cardinality({n \in 1..Len(df) : 5 <= df[n].total_goals /\ df[n].total_goals <= 10})
        /\ \A i \in 1..Len(df) :
              goal_range[i] = NaN <=> (df[i].total_goals = 0 \/ df[i].total_goals > 10)
        /\ SumOver(1..Len(goal_dist), [k \in 1..Len(goal_dist) |-> goal_dist[k].Frequency])
              = Cardinality({n \in 1..Len(df) : 0 < df[n].total_goals /\ df[n].total_goals <= 10})

\* a goalless match, a match above the last edge and one on the last edge
C8_Witness ==
    /\ After3
    /\ \E i \in 1..Len(df) : df[i].total_goals = 0
    /\ \E i \in 1..Len(df) : df[i].total_goals = 11
    /\ \E i \in 1..Len(df) : df[i].total_goals = 10
    /\ FrequencyOf("5+") = 1

\* C9: the day table has one entry per weekday present in the table, the
\* absent ones left out, each with its key and its rows, in the order
\* Mon, Tue, Wed, Thu, Fri, Sat, Sun.
C9_CanonicalDayOrder ==
    After4 =>
        /\ {day_stats[k].Day : k \in 1..Len(day_stats)} = {df[i].Day : i \in 1..Len(df)}
        /\ \A i, j \in 1..Len(day_stats) : i < j =>
              Code(day_stats[i].Day, day_order) < Code(day_stats[j].Day, day_order)
        /\ \A k \in 1..Len(day_stats) :
              day_stats[k].Date = Cardinality({n \in 1..Len(df) : df[n].Day = day_stats[k].Day})

\* the days of the table are Wed, Fri, Mon, one row each, and the output
\* is Mon, Wed, Fri
C9_Witness ==
    /\ After4
    /\ Len(df) = 3
    /\ df[1].Day = "Wed" /\ df[2].Day = "Fri" /\ df[3].Day = "Mon"
    /\ [k \in 1..Len(day_stats) |-> day_stats[k].Day] = <<"Mon", "Wed", "Fri">>

BoundedRates ==
    \A k \in 1..Len(team_stats) :
        /\ team_stats[k].Wins <= team_stats[k].Matches
        /\ 0 <= team_stats[k].WinRate
        /\ team_stats[k].WinRate <= 1000

\* C10 as stated: for every table every team has Wins <= Matches and a Win
\* Rate between 0 and 100 percent.
C10_WinsAtMostMatches == After8 => BoundedRates

\* every winner cell that names a team of the table names a side of its row
WinnersPlayed(frame) ==
    \A i \in 1..Len(frame) :
        \/ Eq(frame[i].winner, frame[i].Home)
        \/ Eq(frame[i].winner, frame[i].Away)
        \/ \A j \in 1..Len(frame) :
              ~Eq(frame[i].winner, frame[j].Home) /\ ~Eq(frame[i].winner, frame[j].Away)

\* C10 amended: when every winner that names a team of the table is the
\* Home or the Away of its own row, every team has Wins <= Matches and a
\* Win Rate between 0 and 100 percent.
C10_WinsAtMostMatchesOfPlayedWinners ==
    (After8 /\ WinnersPlayed(df)) => BoundedRates

\* a table of played winners with a team that won every match, and a team
\* that won some but not all of its matches
C10_Witness ==
    /\ pc = "done"
    /\ WinnersPlayed(df)
    /\ \E k \in 1..Len(team_stats) : team_stats[k].WinRate = 1000
    /\ \E k \in 1..Len(team_stats) :
          0 < team_stats[k].Wins /\ team_stats[k].Wins < team_stats[k].Matches

====
